---- MODULE Spec2Model ----
(***************************************************************************)
(* A model of the SunLCD serial driver (src/__init__.py).                  *)
(*                                                                         *)
(* The session object's fields are the variables of the same names.  The   *)
(* serial port is the pair rx (bytes waiting to be read, ser.inWaiting /   *)
(* ser.read) and tx (what the current top-level call has written with      *)
(* ser.write).  send_serial blocks in a polling loop; the model stops at   *)
(* every time.sleep, where the device may deliver bytes, so a call that    *)
(* sends is a chain of steps: the call itself up to its first sleep, one   *)
(* step per poll, and the caller's continuation in the step of the poll    *)
(* that makes send_serial return.                                          *)
(*                                                                         *)
(* Bytes are their ordinals (the code tests ord(c) == 10); a string is a   *)
(* sequence of bytes.                                                      *)
(***************************************************************************)
EXTENDS Integers, Sequences, FiniteSets, TLC

VARIABLES
    ok,                  \* self.ok
    response_body,       \* self.response_body
    _buf,                \* self._buf
    cursor,              \* self.cursor
    img_list,            \* self.img_list: entries [addr, size]
    img_offset,          \* self.img_offset
    font_list,           \* self.font_list: maps char -> image id
    current_orientation, \* self.current_orientation
    standard_width,      \* self.standard_width
    standard_height,     \* self.standard_height
    rx,                  \* bytes waiting in the serial input
    tx,                  \* writes of the current top-level call, in order
    pc,                  \* "idle", or "poll" inside send_serial's loop
    i,                   \* send_serial's local i
    frame,               \* the caller send_serial returns to
    call,                \* the top-level call in progress or last made
    ret,                 \* what the last top-level call returned
    res,                 \* what the last send_serial returned
    rb,                  \* what the last ReadBack returned
    buf0,                \* _buf when the history below was started
    stream,              \* bytes ReadBack has read since then
    lines,               \* lines ReadBack has completed since then
    polled               \* per poll of the current send_serial: lines completed

vars == <<ok, response_body, _buf, cursor, img_list, img_offset, font_list,
          current_orientation, standard_width, standard_height, rx, tx, pc,
          i, frame, call, ret, res, rb, buf0, stream, lines, polled>>

\* The whole state as one record: the methods below are functions on it.
State ==
    [ok |-> ok, response_body |-> response_body, _buf |-> _buf,
     cursor |-> cursor, img_list |-> img_list, img_offset |-> img_offset,
     font_list |-> font_list, current_orientation |-> current_orientation,
     standard_width |-> standard_width, standard_height |-> standard_height,
     rx |-> rx, tx |-> tx, pc |-> pc, i |-> i, frame |-> frame,
     call |-> call, ret |-> ret, res |-> res, rb |-> rb, buf0 |-> buf0,
     stream |-> stream, lines |-> lines, polled |-> polled]

Set(t) ==
    /\ ok' = t.ok
    /\ response_body' = t.response_body
    /\ _buf' = t._buf
    /\ cursor' = t.cursor
    /\ img_list' = t.img_list
    /\ img_offset' = t.img_offset
    /\ font_list' = t.font_list
    /\ current_orientation' = t.current_orientation
    /\ standard_width' = t.standard_width
    /\ standard_height' = t.standard_height
    /\ rx' = t.rx
    /\ tx' = t.tx
    /\ pc' = t.pc
    /\ i' = t.i
    /\ frame' = t.frame
    /\ call' = t.call
    /\ ret' = t.ret
    /\ res' = t.res
    /\ rb' = t.rb
    /\ buf0' = t.buf0
    /\ stream' = t.stream
    /\ lines' = t.lines
    /\ polled' = t.polled

----------------------------------------------------------------------------
\* Bytes and strings

LF == 10
\* "\r\n"
CRLF == <<13, 10>>
\* 'OK'
OKLine == <<79, 75>>
\* what str.strip() removes: \t \n \v \f \r and the space
Whitespace == {9, 10, 11, 12, 13, 32}

RECURSIVE lstrip(_)
lstrip(s) ==
    IF s # <<>> /\ Head(s) \in Whitespace THEN lstrip(Tail(s)) ELSE s

RECURSIVE rstrip(_)
rstrip(s) ==
    IF s # <<>> /\ s[Len(s)] \in Whitespace
    THEN rstrip(SubSeq(s, 1, Len(s) - 1))
    ELSE s

strip(s) == rstrip(lstrip(s))

\* Python values a call returns
RetBool(b) == [kind |-> "bool", b |-> b, n |-> 0]
RetInt(n) == [kind |-> "int", b |-> FALSE, n |-> n]
RetNone == [kind |-> "none", b |-> FALSE, n |-> 0]
\* an exception leaving the call
RetRaise == [kind |-> "raise", b |-> FALSE, n |-> 0]

\* One command of the device's grammar, NAME(args)
Cmd(name, args) == [name |-> name, args |-> args]

NoFrame == [op |-> "none"]

\* A top-level call begins: tx logs the writes of this call only.
Begin(s, c) == [s EXCEPT !.call = c, !.tx = <<>>]

\* A top-level call returns v.
Return(s, v) == [s EXCEPT !.pc = "idle", !.ret = v, !.frame = NoFrame]

----------------------------------------------------------------------------
\* Serial processing methods

\* ReadLoop with a line's bytes left in the buffer after the line is taken
RECURSIVE ReadLoop_KeepBuf(_, _, _)
ReadLoop_KeepBuf(pending, buf, responses) ==
    IF pending = <<>>
    THEN [buf |-> buf, responses |-> responses]
    ELSE LET c == Head(pending)
         IN  IF c = LF
             THEN ReadLoop_KeepBuf(Tail(pending), buf,
                                   Append(responses, strip(buf)))
             ELSE ReadLoop_KeepBuf(Tail(pending), Append(buf, c), responses)

\* ReadBack's while loop over the bytes waiting: an LF completes a line,
\* any other byte is appended to _buf.
RECURSIVE ReadLoop(_, _, _)
ReadLoop(pending, buf, responses) ==
    IF pending = <<>>
    THEN [buf |-> buf, responses |-> responses]
    ELSE LET c == Head(pending)
         IN  IF c = LF
             THEN ReadLoop(Tail(pending), <<>>, Append(responses, strip(buf)))
             ELSE ReadLoop(Tail(pending), Append(buf, c), responses)

\* ReadBack's for loop over the completed lines.
RECURSIVE Classify(_, _, _)
Classify(responses, isok, body) ==
    IF responses = <<>>
    THEN [ok |-> isok, response_body |-> body]
    ELSE Classify(Tail(responses),
                  IF Head(responses) = OKLine THEN TRUE ELSE isok,
                  Head(responses))

ReadBack(s) ==
    LET r == ReadLoop(s.rx, s._buf, <<>>)
        t == [s EXCEPT !.rx = <<>>, !._buf = r.buf,
                       !.stream = @ \o s.rx, !.lines = @ \o r.responses]
        c == Classify(r.responses, s.ok, s.response_body)
    IN  IF Len(r.responses) = 0
        THEN [t EXCEPT !.rb = "None"]
        ELSE [t EXCEPT !.ok = c.ok, !.response_body = c.response_body,
                       !.rb = "True"]

Retries == 10

\* send_serial leaving ok and response_body as the last command left them
send_serial_KeepsOk(s, cmd) ==
    [s EXCEPT !.tx = Append(@, [cmd |-> cmd, eol |-> CRLF]),
              !.i = Retries, !.pc = "poll",
              !.buf0 = s._buf, !.stream = <<>>, !.lines = <<>>,
              !.polled = <<>>]

\* send_serial discarding the input that waits before it writes
send_serial_Flushes(s, cmd) ==
    [s EXCEPT !.ok = FALSE, !.response_body = <<>>,
              !.rx = <<>>, !._buf = <<>>,
              !.tx = Append(@, [cmd |-> cmd, eol |-> CRLF]),
              !.i = Retries, !.pc = "poll",
              !.buf0 = <<>>, !.stream = <<>>, !.lines = <<>>,
              !.polled = <<>>]

\* send_serial up to its first sleep: reset, write, i = 10.  The caller's
\* frame is set by the caller; the history starts afresh.
send_serial(s, cmd) ==
    [s EXCEPT !.ok = FALSE, !.response_body = <<>>,
              !.tx = Append(@, [cmd |-> cmd, eol |-> CRLF]),
              !.i = Retries, !.pc = "poll",
              !.buf0 = s._buf, !.stream = <<>>, !.lines = <<>>,
              !.polled = <<>>]

----------------------------------------------------------------------------
\* The constructor: the fields, the flushing "\r\n", then Reset().

COLOR_BLACK == 0
BaseOffset == 2097152

InitState(width, height) ==
    send_serial(
        [ok |-> FALSE, response_body |-> <<>>, _buf |-> <<>>,
         cursor |-> <<0, 0>>, img_list |-> <<>>, img_offset |-> BaseOffset,
         font_list |-> <<>>, current_orientation |-> 0,
         standard_width |-> width, standard_height |-> height,
         rx |-> <<>>, tx |-> <<[cmd |-> <<>>, eol |-> CRLF]>>,
         pc |-> "idle", i |-> 0,
         frame |-> [op |-> "__init__", stage |-> "Reset"],
         call |-> [op |-> "__init__"], ret |-> RetNone, res |-> FALSE,
         rb |-> "None", buf0 |-> <<>>, stream |-> <<>>, lines |-> <<>>,
         polled |-> <<>>],
        <<Cmd("RESET", <<>>)>>)

\* if self.Reset(): self.Background(self.COLOR_BLACK)
InitResume(s, r) ==
    IF s.frame.stage = "Reset" /\ r
    THEN [send_serial(s, <<Cmd("SBC", <<COLOR_BLACK>>)>>)
            EXCEPT !.frame = [op |-> "__init__", stage |-> "Background"]]
    ELSE Return(s, RetNone)

----------------------------------------------------------------------------
\* Object-level methods: the image and font registries

\* ListImage reserving one byte per pixel
ListImage_OneBytePerPixel(s, size) ==
    LET byte_len == size[1] * size[2]
    IN  [s EXCEPT !.img_list = Append(@, [addr |-> s.img_offset, size |-> size]),
                  !.img_offset = @ + byte_len,
                  !.ret = RetInt(Len(s.img_list))]

\* ListImage returning the length of the list
ListImage_ReturnsLength(s, size) ==
    LET byte_len == size[1] * size[2] * 2
    IN  [s EXCEPT !.img_list = Append(@, [addr |-> s.img_offset, size |-> size]),
                  !.img_offset = @ + byte_len,
                  !.ret = RetInt(Len(s.img_list) + 1)]

\* ListImage: ret is the new entry's index, len(img_list) - 1 after the
\* append.
ListImage(s, size) ==
    LET byte_len == size[1] * size[2] * 2
    IN  [s EXCEPT !.img_list = Append(@, [addr |-> s.img_offset, size |-> size]),
                  !.img_offset = @ + byte_len,
                  !.ret = RetInt((Len(s.img_list) + 1) - 1)]

\* the default char_list: 0x20 .. 0x7E
DefaultCharList == [k \in 1..95 |-> 31 + k]

EmptyDict == [c \in {} |-> 0]

\* the one element of a singleton
Only(S) == CHOOSE x \in S : TRUE

\* ListFontLoop keeping the first image registered for a character
RECURSIVE ListFontLoop_FirstWins(_, _, _)
ListFontLoop_FirstWins(a, char_size, chars) ==
    IF Len(chars) = 0 THEN a
    ELSE IF Len(chars) = 1
    THEN LET t == ListImage(a.s, char_size)
         IN  [s |-> t, this_font |-> a.this_font @@ (chars[1] :> t.ret.n)]
    ELSE LET h == Len(chars) \div 2
         IN  Only({ListFontLoop_FirstWins(b, char_size,
                                          SubSeq(chars, h + 1, Len(chars))) :
                   b \in {ListFontLoop_FirstWins(a, char_size,
                                                 SubSeq(chars, 1, h))}})

\* ListFont's for loop over chars, this_font[c] = self.ListImage(char_size)
\* for each c in order; a is [s, this_font].  A longer list is walked as
\* its first half followed by its second half, which is the same walk.
RECURSIVE ListFontLoop(_, _, _)
ListFontLoop(a, char_size, chars) ==
    IF Len(chars) = 0 THEN a
    ELSE IF Len(chars) = 1
    THEN LET t == ListImage(a.s, char_size)
         IN  [s |-> t, this_font |-> (chars[1] :> t.ret.n) @@ a.this_font]
    ELSE LET h == Len(chars) \div 2
         IN  Only({ListFontLoop(b, char_size, SubSeq(chars, h + 1, Len(chars))) :
                   b \in {ListFontLoop(a, char_size, SubSeq(chars, 1, h))}})

ListFont(s, char_size, char_list) ==
    LET a == ListFontLoop([s |-> s, this_font |-> EmptyDict], char_size,
                          char_list)
    IN  [a.s EXCEPT !.font_list = Append(@, a.this_font),
                    !.ret = RetInt((Len(s.font_list) + 1) - 1)]

\* list[k] as Python indexes a list: from the end when k is negative
PyIndexOK(list, k) == -Len(list) <= k /\ k < Len(list)
PyIndex(list, k) == IF k >= 0 THEN list[k + 1] ELSE list[Len(list) + k + 1]

RawImage(s, address, position, size, transparent) ==
    send_serial(s, <<Cmd("FSIMG", <<address, position[1], position[2],
                                   size[1], size[2], transparent>>)>>)

\* ShowImage comparing the id with the length, not with the last index
ShowImage_OffByOne(s, image_id, position, transparent) ==
    IF image_id > Len(s.img_list)
    THEN Return(s, RetBool(FALSE))
    ELSE IF ~PyIndexOK(s.img_list, image_id)
    THEN Return(s, RetRaise)
    ELSE LET img_info == PyIndex(s.img_list, image_id)
         IN  [RawImage(s, img_info.addr, position, img_info.size, transparent)
                EXCEPT !.frame = [op |-> "ShowImage"]]

ShowImage(s, image_id, position, transparent) ==
    IF image_id > Len(s.img_list) - 1
    THEN Return(s, RetBool(FALSE))
    ELSE IF ~PyIndexOK(s.img_list, image_id)
    THEN Return(s, RetRaise)
    ELSE LET img_info == PyIndex(s.img_list, image_id)
         IN  [RawImage(s, img_info.addr, position, img_info.size, transparent)
                EXCEPT !.frame = [op |-> "ShowImage"]]

HORIZONTAL == 1

\* the flush test with the comparison off by one
FlushNow_Late(n) == n > 16
\* if i >= 16: flush
FlushNow(n) == n >= 16

\* Advance wrapping one glyph later
Advance_WrapsLate(x, y, char_size, lcd_w, lcd_h) ==
    LET x1 == x + char_size[1]
    IN  IF x1 > (lcd_w - char_size[1])
        THEN LET y1 == y + char_size[2]
             IN  IF y1 >= (lcd_h - char_size[2]) THEN <<0, 0>> ELSE <<0, y1>>
        ELSE <<x1, y>>

\* the draw cursor after a glyph of char_size drawn at (x, y)
Advance(x, y, char_size, lcd_w, lcd_h) ==
    LET x1 == x + char_size[1]
    IN  IF x1 >= (lcd_w - char_size[1])
        THEN LET y1 == y + char_size[2]
             IN  IF y1 >= (lcd_h - char_size[2]) THEN <<0, 0>> ELSE <<0, y1>>
        ELSE <<x1, y>>

\* TextLoop_CountsAbsent counting a character the font lacks as a glyph of the batch
RECURSIVE TextLoop_CountsAbsent(_, _)
TextLoop_CountsAbsent(s, f) ==
    IF f.rest = <<>>
    THEN IF Len(f.send_str) > 0
         THEN [send_serial(s, f.send_str)
                 EXCEPT !.frame = [f EXCEPT !.stage = "last"]]
         ELSE Return(s, RetBool(TRUE))
    ELSE LET c == Head(f.rest)
         IN  IF c \in DOMAIN f.this_font
             THEN LET char_img_id == f.this_font[c]
                      img_info == s.img_list[char_img_id + 1]
                      char_size == img_info.size
                      send_str == Append(f.send_str,
                                    Cmd("FSIMG", <<img_info.addr, f.x, f.y,
                                                   char_size[1], char_size[2],
                                                   f.transparent>>))
                      xy == Advance(f.x, f.y, char_size, f.lcd_w, f.lcd_h)
                      g == [f EXCEPT !.rest = Tail(@), !.x = xy[1],
                                     !.y = xy[2], !.i = @ + 1,
                                     !.send_str = send_str]
                  IN  IF FlushNow(g.i)
                      THEN [send_serial(s, g.send_str)
                              EXCEPT !.frame = [g EXCEPT !.stage = "loop"]]
                      ELSE TextLoop_CountsAbsent(s, g)
             ELSE TextLoop_CountsAbsent(s, [f EXCEPT !.rest = Tail(@),
                                                  !.i = @ + 1])

\* TextFont's for loop from the frame f, up to the next send_serial or the
\* return.  Every command of send_str is followed by ";".
RECURSIVE TextLoop(_, _)
TextLoop(s, f) ==
    IF f.rest = <<>>
    THEN IF Len(f.send_str) > 0
         THEN [send_serial(s, f.send_str)
                 EXCEPT !.frame = [f EXCEPT !.stage = "last"]]
         ELSE Return(s, RetBool(TRUE))
    ELSE LET c == Head(f.rest)
         IN  IF c \in DOMAIN f.this_font
             THEN LET char_img_id == f.this_font[c]
                      img_info == s.img_list[char_img_id + 1]
                      char_size == img_info.size
                      send_str == Append(f.send_str,
                                    Cmd("FSIMG", <<img_info.addr, f.x, f.y,
                                                   char_size[1], char_size[2],
                                                   f.transparent>>))
                      xy == Advance(f.x, f.y, char_size, f.lcd_w, f.lcd_h)
                      g == [f EXCEPT !.rest = Tail(@), !.x = xy[1],
                                     !.y = xy[2], !.i = @ + 1,
                                     !.send_str = send_str]
                  IN  IF FlushNow(g.i)
                      THEN [send_serial(s, g.send_str)
                              EXCEPT !.frame = [g EXCEPT !.stage = "loop"]]
                      ELSE TextLoop(s, g)
             ELSE TextLoop(s, [f EXCEPT !.rest = Tail(@)])

TextFont(s, font_id, position, text, transparent) ==
    IF font_id > Len(s.font_list) - 1
    THEN Return(s, RetBool(FALSE))
    ELSE IF ~PyIndexOK(s.font_list, font_id)
    THEN Return(s, RetRaise)
    ELSE LET horizontal == s.current_orientation = HORIZONTAL
         IN  TextLoop(s, [op |-> "TextFont", stage |-> "loop",
                          this_font |-> PyIndex(s.font_list, font_id),
                          rest |-> text, x |-> position[1], y |-> position[2],
                          lcd_w |-> IF horizontal THEN s.standard_height
                                                  ELSE s.standard_width,
                          lcd_h |-> IF horizontal THEN s.standard_width
                                                  ELSE s.standard_height,
                          i |-> 0, send_str |-> <<>>,
                          transparent |-> transparent])

\* TextFontResume going on with the text after a timeout
TextFontResume_IgnoreTimeout(s, r) ==
    IF s.frame.stage = "last"
    THEN Return(s, RetBool(r))
    ELSE TextLoop(s, [s.frame EXCEPT !.send_str = <<>>, !.i = 0])

\* send_serial(send_str) returned r inside TextFont
TextFontResume(s, r) ==
    IF s.frame.stage = "last"
    THEN Return(s, RetBool(r))
    ELSE IF r = FALSE
         THEN Return(s, RetBool(FALSE))
         ELSE TextLoop(s, [s.frame EXCEPT !.send_str = <<>>, !.i = 0])

----------------------------------------------------------------------------
\* Internal LCD methods

\* int(q) of the rational a/b, b > 0: towards zero
TruncDiv(a, b) == IF a >= 0 THEN a \div b ELSE -((-a) \div b)

\* the denominator of the levels the caller passes
LevelDen == 8

\* Brightness without the upper clamp
Brightness_NoClamp(s, level) ==
    IF ~level.numeric
    THEN Return(s, RetBool(FALSE))
    ELSE LET raw == TruncDiv((LevelDen - level.num) * 255, LevelDen)
             bl_val == IF raw < 0 THEN 0 ELSE raw
         IN  [send_serial(s, <<Cmd("BL", <<bl_val>>)>>)
                EXCEPT !.frame = [op |-> "Brightness"]]

\* level is [numeric, num]: the number num/LevelDen, or a value float()
\* rejects
Brightness(s, level) ==
    IF ~level.numeric
    THEN Return(s, RetBool(FALSE))
    ELSE LET raw == TruncDiv((LevelDen - level.num) * 255, LevelDen)
             low == IF raw < 0 THEN 0 ELSE raw
             bl_val == IF low > 255 THEN 255 ELSE low
         IN  [send_serial(s, <<Cmd("BL", <<bl_val>>)>>)
                EXCEPT !.frame = [op |-> "Brightness"]]

\* Orientation: the field is assigned before the command is sent
Orientation(s, orientation) ==
    IF orientation = 0
    THEN [send_serial([s EXCEPT !.current_orientation = orientation],
                      <<Cmd("DIR", <<0>>)>>)
            EXCEPT !.frame = [op |-> "Orientation"]]
    ELSE IF orientation = 1
    THEN [send_serial([s EXCEPT !.current_orientation = orientation],
                      <<Cmd("DIR", <<1>>)>>)
            EXCEPT !.frame = [op |-> "Orientation"]]
    ELSE Return(s, RetBool(FALSE))

Line(s, origin, destination, color) ==
    send_serial(s, <<Cmd("PL", <<origin[1], origin[2], destination[1],
                                 destination[2], color>>)>>)

----------------------------------------------------------------------------
\* Object-level methods: the cursor.  A position argument is [seq, v]:
\* seq says whether it is a tuple or a list, v holds its items (none when
\* it is neither).

\* (isinstance(position, tuple) or isinstance(position, list))
\*     and (len(position) == 2)
IsPair(position) == position.seq /\ Len(position.v) = 2

MoveTo(s, position) ==
    IF IsPair(position)
    THEN Return([s EXCEPT !.cursor = <<position.v[1], position.v[2]>>],
                RetBool(TRUE))
    ELSE Return(s, RetBool(FALSE))

\* LineTo drawing from the corner of the screen
LineTo_FromCorner(s, position, color) ==
    IF IsPair(position)
    THEN [Line(s, <<0, 0>>, position.v, color)
            EXCEPT !.frame = [op |-> "LineTo", position |-> position]]
    ELSE Return(s, RetNone)

\* LineTo up to the sleep inside Line; the if has no else branch, so a
\* position that is no pair falls off the end of the method.
LineTo(s, position, color) ==
    IF IsPair(position)
    THEN [Line(s, s.cursor, position.v, color)
            EXCEPT !.frame = [op |-> "LineTo", position |-> position]]
    ELSE Return(s, RetNone)

\* LineToResume moving the cursor whatever Line returned
LineToResume_MovesAnyway(s, r) ==
    IF r = FALSE
    THEN Return([s EXCEPT !.cursor = <<s.frame.position.v[1],
                                       s.frame.position.v[2]>>],
                RetBool(FALSE))
    ELSE MoveTo(s, s.frame.position)

\* Line returned r inside LineTo
LineToResume(s, r) ==
    IF r = FALSE
    THEN Return(s, RetBool(FALSE))
    ELSE MoveTo(s, s.frame.position)

----------------------------------------------------------------------------
\* send_serial returns r to the caller in s.frame.

Resume(s, r) ==
    CASE s.frame.op = "__init__" -> InitResume(s, r)
      [] s.frame.op = "TextFont" -> TextFontResume(s, r)
      [] s.frame.op = "LineTo" -> LineToResume(s, r)
      [] OTHER -> Return(s, RetBool(r))

\* send_serial_poll returning only on an acknowledged line
send_serial_poll_OkOnly(s) ==
    LET t == ReadBack([s EXCEPT !.i = @ - 1])
        u == [t EXCEPT !.polled = Append(@, Len(t.lines) - Len(s.lines))]
    IN  IF u.rb # "None" /\ u.ok
        THEN Resume([u EXCEPT !.res = TRUE], TRUE)
        ELSE IF u.i > 0
             THEN u
             ELSE Resume([u EXCEPT !.res = FALSE], FALSE)

\* One iteration of send_serial's loop, after the sleep: i -= 1, ReadBack,
\* return True on a completed line, False when i has run out.
send_serial_poll(s) ==
    LET t == ReadBack([s EXCEPT !.i = @ - 1])
        u == [t EXCEPT !.polled = Append(@, Len(t.lines) - Len(s.lines))]
    IN  IF u.rb # "None"
        THEN Resume([u EXCEPT !.res = TRUE], TRUE)
        ELSE IF u.i > 0
             THEN u
             ELSE Resume([u EXCEPT !.res = FALSE], FALSE)

----------------------------------------------------------------------------
\* Bounds of the model

\* bytes the device may have in flight or half read (rx and _buf together)
MaxPending == 3
\* bytes a device that answers in chunks sends in one history
MaxStream == 11

\* images the caller registers one by one
MaxImages == 3
\* fonts the caller registers
MaxFonts == 1

\* characters of a text
MaxText == 20

\* the bytes of a device that sends byte by byte: O, K, LF
DeviceBytes == {79, 75, 10}

\* what a device that answers in chunks sends:
\* "OK\n", "FOO\nBAR\n", " O", "K \r\n", "\r\n"
ChunkOK == <<79, 75, 10>>
ChunkFooBar == <<70, 79, 79, 10, 66, 65, 82, 10>>
Chunks == {ChunkOK, ChunkFooBar, <<32, 79>>, <<75, 32, 13, 10>>, <<13, 10>>}

----------------------------------------------------------------------------
\* Actions

Is(t) ==
    /\ ok = t.ok
    /\ response_body = t.response_body
    /\ _buf = t._buf
    /\ cursor = t.cursor
    /\ img_list = t.img_list
    /\ img_offset = t.img_offset
    /\ font_list = t.font_list
    /\ current_orientation = t.current_orientation
    /\ standard_width = t.standard_width
    /\ standard_height = t.standard_height
    /\ rx = t.rx
    /\ tx = t.tx
    /\ pc = t.pc
    /\ i = t.i
    /\ frame = t.frame
    /\ call = t.call
    /\ ret = t.ret
    /\ res = t.res
    /\ rb = t.rb
    /\ buf0 = t.buf0
    /\ stream = t.stream
    /\ lines = t.lines
    /\ polled = t.polled

\* SunLCD(port, width, height) with the default size
Init == Is(InitState(240, 320))

\* the loop of send_serial wakes from its sleep
Poll ==
    /\ pc = "poll"
    /\ \E t \in {send_serial_poll(State)} : Set(t)

\* the caller calls send_serial(cmd) itself
CallSendSerial ==
    /\ pc = "idle"
    /\ \E name \in {"VER"} :
         LET c == <<Cmd(name, <<>>)>>
             s == Begin(State, [op |-> "send_serial", cmd |-> c])
         IN  \E t \in {[send_serial(s, c)
                            EXCEPT !.frame = [op |-> "send_serial"]]} : Set(t)

\* the caller calls ReadBack() itself
CallReadBack ==
    /\ pc = "idle"
    /\ \E t \in {ReadBack(Begin(State, [op |-> "ReadBack"]))} :
         Set(Return(t, IF t.rb = "None" THEN RetNone ELSE RetBool(TRUE)))

\* the device sends one byte
DeviceByte ==
    /\ Len(rx) + Len(_buf) < MaxPending
    /\ \E c \in DeviceBytes : rx' = Append(rx, c)
    /\ UNCHANGED <<ok, response_body, _buf, cursor, img_list, img_offset,
                   font_list, current_orientation, standard_width,
                   standard_height, tx, pc, i, frame, call, ret, res, rb,
                   buf0, stream, lines, polled>>

\* the device sends a chunk of bytes
DeviceSend ==
    /\ \E chunk \in Chunks :
         /\ Len(stream) + Len(rx) + Len(chunk) <= MaxStream
         /\ rx' = rx \o chunk
    /\ UNCHANGED <<ok, response_body, _buf, cursor, img_list, img_offset,
                   font_list, current_orientation, standard_width,
                   standard_height, tx, pc, i, frame, call, ret, res, rb,
                   buf0, stream, lines, polled>>

\* the caller calls ListImage(size)
CallListImage(sizes) ==
    /\ pc = "idle"
    /\ Len(img_list) < MaxImages
    /\ \E size \in sizes :
         \E t \in {ListImage(Begin(State, [op |-> "ListImage",
                                           size |-> size]), size)} :
            Set(Return(t, t.ret))

\* the caller calls ListFont(char_size, char_list)
CallListFont(sizes, char_lists) ==
    /\ pc = "idle"
    /\ Len(font_list) < MaxFonts
    /\ \E char_size \in sizes, char_list \in char_lists :
         \E t \in {ListFont(Begin(State, [op |-> "ListFont",
                                          char_size |-> char_size,
                                          char_list |-> char_list]),
                            char_size, char_list)} :
            Set(Return(t, t.ret))

\* the caller calls ShowImage(image_id, position)
CallShowImage ==
    /\ pc = "idle"
    /\ \E image_id \in 0..(Len(img_list) + 1) :
         \E t \in {ShowImage(Begin(State, [op |-> "ShowImage",
                                           image_id |-> image_id]),
                             image_id, <<0, 0>>, 0)} : Set(t)

\* a text of n characters: A and B in turn, and, when gap > 0, a
\* character no font holds in every gap-th place
Text(n, gap) ==
    [k \in 1..n |-> IF gap > 0 /\ k % gap = 0 THEN 63 ELSE 65 + (k % 2)]

\* the caller calls TextFont(font_id, position, text)
CallTextFont(positions) ==
    /\ pc = "idle"
    /\ \E font_id \in 0..Len(font_list), position \in positions,
          n \in 0..MaxText, gap \in {0, 3} :
         \E t \in {TextFont(Begin(State, [op |-> "TextFont",
                                          font_id |-> font_id,
                                          position |-> position,
                                          text |-> Text(n, gap)]),
                            font_id, position, Text(n, gap), 0)} : Set(t)

\* the caller calls TextFont(font_id, position, text) with a font it has
\* registered
CallTextFontOf(positions, gaps) ==
    /\ pc = "idle"
    /\ \E font_id \in 0..(Len(font_list) - 1), position \in positions,
          n \in 0..MaxText, gap \in gaps :
         \E t \in {TextFont(Begin(State, [op |-> "TextFont",
                                          font_id |-> font_id,
                                          position |-> position,
                                          text |-> Text(n, gap)]),
                            font_id, position, Text(n, gap), 0)} : Set(t)

\* the caller calls Brightness(level)
CallBrightness ==
    /\ pc = "idle"
    /\ \E level \in [numeric : {TRUE}, num : (-LevelDen)..(2 * LevelDen)]
                    \cup {[numeric |-> FALSE, num |-> 0]} :
         \E t \in {Brightness(Begin(State, [op |-> "Brightness",
                                            level |-> level]), level)} :
            Set(t)

\* the device answers "OK", when no answer is waiting
DeviceLine ==
    /\ rx = <<>>
    /\ rx' = ChunkOK
    /\ UNCHANGED <<ok, response_body, _buf, cursor, img_list, img_offset,
                   font_list, current_orientation, standard_width,
                   standard_height, tx, pc, i, frame, call, ret, res, rb,
                   buf0, stream, lines, polled>>

\* the device answers "OK" to the command just written, before the first
\* poll, or never
DevicePrompt ==
    /\ pc = "poll" /\ i = Retries
    /\ rx = <<>>
    /\ rx' = ChunkOK
    /\ UNCHANGED <<ok, response_body, _buf, cursor, img_list, img_offset,
                   font_list, current_orientation, standard_width,
                   standard_height, tx, pc, i, frame, call, ret, res, rb,
                   buf0, stream, lines, polled>>

\* positions a caller passes: pairs, as a tuple or a list
Pairs == [seq : {TRUE}, v : {<<5, 5>>, <<8, 5>>, <<0, 0>>}]
\* and what is no pair: the number 5, (5,), [5, 5, 5], ()
NoPairs ==
    {[seq |-> FALSE, v |-> <<>>], [seq |-> TRUE, v |-> <<5>>],
     [seq |-> TRUE, v |-> <<5, 5, 5>>], [seq |-> TRUE, v |-> <<>>]}

\* the caller calls MoveTo(position)
CallMoveTo ==
    /\ pc = "idle"
    /\ \E position \in Pairs \cup NoPairs :
         \E t \in {MoveTo(Begin(State, [op |-> "MoveTo",
                                        position |-> position]), position)} :
            Set(t)

\* the caller calls LineTo(position), with the default colour
CallLineTo ==
    /\ pc = "idle"
    /\ \E position \in Pairs \cup NoPairs :
         \E t \in {LineTo(Begin(State, [op |-> "LineTo",
                                        position |-> position]),
                          position, 15)} : Set(t)

\* the caller calls Orientation(orientation)
CallOrientation ==
    /\ pc = "idle"
    /\ \E orientation \in 0..2 :
         \E t \in {Orientation(Begin(State, [op |-> "Orientation",
                                             orientation |-> orientation]),
                               orientation)} : Set(t)

----------------------------------------------------------------------------
\* Every call on a session, against every device.

Next ==
    \/ Poll
    \/ CallSendSerial
    \/ CallReadBack
    \/ CallListImage({<<16, 16>>})
    \/ CallListFont({<<16, 16>>}, {<<65, 66>>})
    \/ CallShowImage
    \/ CallTextFont({<<0, 0>>})
    \/ CallBrightness
    \/ CallMoveTo
    \/ CallLineTo
    \/ CallOrientation
    \/ DeviceByte
    \/ DeviceSend
    \/ DeviceLine
    \/ DevicePrompt
Spec == Init /\ [][Next]_vars

----------------------------------------------------------------------------
\* send_serial against a device that sends any bytes at any time.  The
\* calling thread is never suspended for ever: a sleep of 0.1 s ends.

NextSend == Poll \/ CallSendSerial \/ DeviceByte
SpecSend == Init /\ [][NextSend]_vars
FairSend == SpecSend /\ WF_vars(Poll)

AllZero(q) == \A k \in 1..Len(q) : q[k] = 0

SendSerialInv ==
    /\ Len(polled) = Retries - i
    /\ Len(polled) <= Retries
    /\ \A k \in 1..(Len(polled) - 1) : polled[k] = 0
    /\ pc = "poll" => i > 0 /\ AllZero(polled)
    /\ call.op = "send_serial" =>
          /\ tx = <<[cmd |-> call.cmd, eol |-> CRLF]>>
          /\ pc = "idle" =>
                /\ ret = RetBool(res)
                /\ res <=> (polled # <<>> /\ polled[Len(polled)] > 0)
                /\ ~res <=> (Len(polled) = Retries /\ AllZero(polled))

\* C3: send_serial writes cmd and CRLF once, polls at most 10 times,
\* returns True at the first poll that completes a line (OK or not) and
\* polls no further, returns False exactly when all 10 polls completed no
\* line, and always returns (a boolean), whatever the device sends.
C3_SendSerial == []SendSerialInv /\ ((pc = "poll") ~> (pc = "idle"))

\* send_serial returned True at a poll after the first, on a line that is
\* not the acknowledgement
C3_Witness ==
    /\ pc = "idle" /\ call.op = "send_serial"
    /\ ret = RetBool(TRUE)
    /\ Len(polled) > 1
    /\ ~ok /\ response_body # <<>>

----------------------------------------------------------------------------
\* ReadBack fed by a device that answers in chunks.

NextReader == Poll \/ CallReadBack \/ DeviceSend
SpecReader == Init /\ [][NextReader]_vars

\* The reference: the bytes fed since the history began, after what _buf
\* held then, cut at every LF.
Fed == buf0 \o stream
LFs(w) == {k \in 1..Len(w) : w[k] = LF}
Before(w, p) == {k \in LFs(w) : k < p}
SegmentStart(w, p) ==
    IF Before(w, p) = {} THEN 1
    ELSE 1 + CHOOSE k \in Before(w, p) : \A j \in Before(w, p) : j <= k
Trimmed(s) ==
    LET inked == {k \in 1..Len(s) : s[k] \notin Whitespace}
    IN  IF inked = {} THEN <<>>
        ELSE SubSeq(s, CHOOSE k \in inked : \A j \in inked : k <= j,
                       CHOOSE k \in inked : \A j \in inked : j <= k)

LineFOO == <<70, 79, 79>>
LineBAR == <<66, 65, 82>>

\* C4: in any chunking the completed lines are the LF-delimited segments
\* of the concatenated stream, trimmed, in order, and _buf is the partial
\* trailing segment; ok is True exactly when a completed line was "OK";
\* response_body is the last completed line; "OK\n" then "FOO\nBAR\n"
\* gives OK, FOO, BAR with ok True after the first and response_body BAR.
C4_ReadBackLines ==
    /\ Len(lines) = Cardinality(LFs(Fed))
    /\ \A p \in LFs(Fed) :
          lines[Cardinality(Before(Fed, p)) + 1]
              = Trimmed(SubSeq(Fed, SegmentStart(Fed, p), p - 1))
    /\ _buf \o rx = SubSeq(Fed \o rx, SegmentStart(Fed, Len(Fed) + 1),
                            Len(Fed) + Len(rx))
    /\ _buf = SubSeq(Fed, SegmentStart(Fed, Len(Fed) + 1), Len(Fed))
    /\ ok <=> \E k \in 1..Len(lines) : lines[k] = OKLine
    /\ response_body = IF lines = <<>> THEN <<>> ELSE lines[Len(lines)]
    /\ (buf0 = <<>> /\ stream = ChunkOK) =>
          lines = <<OKLine>> /\ ok /\ response_body = OKLine
    /\ (buf0 = <<>> /\ stream = ChunkOK \o ChunkFooBar) =>
          /\ lines = <<OKLine, LineFOO, LineBAR>>
          /\ ok /\ response_body = LineBAR

\* the caller's own ReadBack has read "OK\n" and "FOO\nBAR\n"
C4_Witness ==
    /\ call.op = "ReadBack" /\ pc = "idle"
    /\ buf0 = <<>> /\ stream = ChunkOK \o ChunkFooBar
    /\ Len(lines) = 3 /\ ret = RetBool(TRUE)

----------------------------------------------------------------------------
\* The registries, built by any ListImage and ListFont calls on a session
\* whose device stays silent.

AllocSizes == {<<16, 16>>, <<8, 12>>, <<0, 4>>}
\* "ABA", " !" and the empty string
AllocCharLists == {<<65, 66, 65>>, <<32, 33>>, <<>>}

ListImageAlloc == CallListImage(AllocSizes)
ListFontAlloc == CallListFont(AllocSizes, AllocCharLists)
NextAlloc == Poll \/ ListImageAlloc \/ ListFontAlloc
SpecAlloc == Init /\ [][NextAlloc]_vars

ByteLen(e) == e.size[1] * e.size[2] * 2
\* bytes of entries lo..hi
RECURSIVE BytesIn(_, _)
BytesIn(lo, hi) ==
    IF lo > hi THEN 0
    ELSE IF lo = hi THEN ByteLen(img_list[lo])
    ELSE LET mid == (lo + hi) \div 2
         IN  BytesIn(lo, mid) + BytesIn(mid + 1, hi)
BytesUpTo(k) == BytesIn(1, k)

\* C1: img_offset is 2097152 plus the bytes of all entries, entry k's
\* address is 2097152 plus the bytes of the entries before it, so entries
\* of positive size have increasing addresses and disjoint byte ranges;
\* ListImage returns the index of the entry it appended.
C1_AllocatorLayout ==
    /\ img_offset = 2097152 + BytesUpTo(Len(img_list))
    /\ \A k \in 1..Len(img_list) :
          img_list[k].addr = 2097152 + BytesUpTo(k - 1)
    /\ \A j, k \in 1..Len(img_list) :
          (j < k /\ ByteLen(img_list[j]) > 0 /\ ByteLen(img_list[k]) > 0) =>
              /\ img_list[j].addr < img_list[k].addr
              /\ img_list[j].addr + ByteLen(img_list[j]) <= img_list[k].addr
    /\ (pc = "idle" /\ call.op = "ListImage") =>
          /\ ret = RetInt(Len(img_list) - 1)
          /\ img_list[ret.n + 1].size = call.size

\* images of different sizes were registered, alone and as glyphs
C1_Witness ==
    /\ pc = "idle" /\ call.op = "ListImage"
    /\ Len(img_list) >= 3 /\ Len(font_list) = 1
    /\ \E j, k \in 1..Len(img_list) :
          j < k /\ img_list[k].size # img_list[j].size /\ ByteLen(img_list[j]) > 0

S16 == <<16, 16>>

\* C2: on a fresh session the first ListImage((16,16)) returns
\* 0 with address 2097152 and a second ListImage((16,16)) returns 1 with
\* address 2097664 (2097152 + 16*16*2).
C2_TwoImages ==
    (pc = "idle" /\ call.op = "ListImage" /\ font_list = <<>>
       /\ \A k \in 1..Len(img_list) : img_list[k].size = S16) =>
        /\ Len(img_list) = 1 => ret = RetInt(0) /\ img_list[1].addr = 2097152
        /\ Len(img_list) = 2 =>
              /\ ret = RetInt(1)
              /\ img_list[1].addr = 2097152
              /\ img_list[2].addr = 2097664

\* C2 with the second image at 2097168, sixteen bytes after the first.
C2_SecondAfter16 ==
    (pc = "idle" /\ call.op = "ListImage" /\ font_list = <<>>
       /\ \A k \in 1..Len(img_list) : img_list[k].size = S16) =>
        /\ Len(img_list) = 1 => ret = RetInt(0) /\ img_list[1].addr = 2097152
        /\ Len(img_list) = 2 =>
              /\ ret = RetInt(1)
              /\ img_list[1].addr = 2097152
              /\ img_list[2].addr = 2097168

\* two ListImage((16,16)) calls on a fresh session have returned
C2_Witness ==
    /\ pc = "idle" /\ call.op = "ListImage" /\ font_list = <<>>
    /\ Len(img_list) = 2
    /\ img_list[1].size = S16 /\ img_list[2].size = S16

----------------------------------------------------------------------------
\* Drawing: fonts of two glyphs, texts with and without characters the
\* font lacks, a device that answers a line or stays silent.

\* SunLCD(port, 32, 320)
InitText == Is(InitState(32, 320))

ListFontText == CallListFont({<<16, 16>>}, {<<65, 66>>})
TextFontText == CallTextFont({<<0, 0>>})
NextText ==
    Poll \/ DeviceLine \/ ListFontText \/ TextFontText \/ CallShowImage
SpecText == InitText /\ [][NextText]_vars

\* the font a TextFont call draws with
CallFont == PyIndex(font_list, call.font_id)
DrawsText ==
    /\ call.op = "TextFont"
    /\ call.font_id <= Len(font_list) - 1
    /\ PyIndexOK(font_list, call.font_id)
\* the characters of the call's text that the font holds
InFont(c) == c \in DOMAIN CallFont
Glyphs == SelectSeq(call.text, InFont)
\* the commands written by the call so far, over all its transmissions
RECURSIVE Flatten(_)
Flatten(w) == IF w = <<>> THEN <<>> ELSE Head(w).cmd \o Flatten(Tail(w))
Sent == Flatten(tx)

\* C5: 10 characters of the font, glyphs of 16x16, from (0,0)
\* on a display 32 wide: the x of the FSIMG commands is 0,16,0,16,... and
\* y grows by 16 after every second glyph.
C5_WrapAfterTwo ==
    (/\ DrawsText
     /\ Len(call.text) = 10 /\ Len(Glyphs) = 10
     /\ call.position = <<0, 0>>
     /\ standard_width = 32 /\ current_orientation = 0) =>
        \A m \in 1..Len(Sent) :
            img_list[CallFont[Glyphs[m]] + 1].size = S16 =>
                /\ Sent[m].args[2] = 16 * ((m - 1) % 2)
                /\ Sent[m].args[3] = 16 * ((m - 1) \div 2)

\* C6: a TextFont call sends at most 16 FSIMG commands per transmission
\* and exactly 16 in all but the last, the glyphs of the text in text
\* order; when no transmission timed out it has made ceil(g/16)
\* transmissions for the g characters of the text that the font holds.
C6_Batches ==
    DrawsText =>
        /\ \A k \in 1..Len(tx) :
              /\ Len(tx[k].cmd) <= 16
              /\ k < Len(tx) => Len(tx[k].cmd) = 16
              /\ \A m \in 1..Len(tx[k].cmd) : tx[k].cmd[m].name = "FSIMG"
        /\ Len(Sent) <= Len(Glyphs)
        /\ \A m \in 1..Len(Sent) :
              Sent[m].args[1] = img_list[CallFont[Glyphs[m]] + 1].addr
        /\ (pc = "idle" /\ ret = RetBool(TRUE)) =>
              /\ Len(Sent) = Len(Glyphs)
              /\ Len(tx) = (Len(Glyphs) + 15) \div 16

\* a text of 20 glyphs has been drawn in two transmissions, 16 and 4
C6_Witness ==
    /\ DrawsText /\ pc = "idle" /\ ret = RetBool(TRUE)
    /\ Len(Glyphs) = 20
    /\ Len(tx) = 2 /\ Len(tx[1].cmd) = 16 /\ Len(tx[2].cmd) = 4

\* the poll that makes send_serial time out: the last one, with no LF
\* waiting
TimedOutPoll ==
    /\ pc = "poll" /\ i = 1
    /\ \A k \in 1..Len(rx) : rx[k] # LF
    /\ rx' = <<>>

\* C7: when a transmission of TextFont times out, TextFont returns False
\* in that step and writes nothing more; what it had written stays
\* written.
C7_TimeoutStops ==
    [][(TimedOutPoll /\ call.op = "TextFont") =>
          /\ pc' = "idle"
          /\ ret' = RetBool(FALSE)
          /\ tx' = tx
          /\ call' = call]_vars

\* the first transmission of a text of more than 16 glyphs timed out
C7_Witness ==
    /\ DrawsText /\ pc = "idle" /\ ret = RetBool(FALSE)
    /\ Len(Glyphs) > 16
    /\ Len(tx) = 1 /\ Len(tx[1].cmd) = 16
    /\ ~res

\* C8: ShowImage with image_id >= len(img_list) and TextFont with
\* font_id >= len(font_list) return False, raise nothing, write nothing
\* and leave img_list, font_list, img_offset, cursor, ok and
\* response_body as they were.
C8_BadIdFails ==
    [][(/\ pc = "idle"
        /\ rx' = rx
        /\ \/ call'.op = "ShowImage" /\ call'.image_id >= Len(img_list)
           \/ call'.op = "TextFont" /\ call'.font_id >= Len(font_list)) =>
          /\ pc' = "idle"
          /\ ret' = RetBool(FALSE)
          /\ tx' = <<>>
          /\ UNCHANGED <<img_list, font_list, img_offset, cursor, ok,
                         response_body>>]_vars

\* ShowImage was refused an id past the end of a registry that holds
\* images, after a command the device acknowledged
C8_Witness ==
    /\ pc = "idle" /\ call.op = "ShowImage"
    /\ call.image_id >= Len(img_list) /\ Len(img_list) > 0
    /\ ret = RetBool(FALSE) /\ tx = <<>>
    /\ ok /\ response_body = OKLine

----------------------------------------------------------------------------
\* Brightness, for levels that are multiples of 1/LevelDen from -1 to 2
\* and for a level that is no number.

NextBright == Poll \/ DeviceLine \/ CallBrightness
SpecBright == Init /\ [][NextBright]_vars

\* round(a/b) for a >= 0, b > 0, halves away from zero
RoundDiv(a, b) == (2 * a + b) \div (2 * b)
Command(name, args) == <<[cmd |-> <<Cmd(name, args)>>, eol |-> CRLF]>>

\* C9: for a level in [0,1] Brightness sends BL(b) with
\* b = round((1 - level) * 255).
C9_Rounds ==
    (/\ call.op = "Brightness" /\ call.level.numeric
     /\ 0 <= call.level.num /\ call.level.num <= LevelDen) =>
        tx = Command("BL", <<RoundDiv((LevelDen - call.level.num) * 255,
                                      LevelDen)>>)

MinusOne == [numeric |-> TRUE, num |-> -LevelDen]

----------------------------------------------------------------------------
\* The cursor: MoveTo and LineTo against a device that answers a line or
\* stays silent.

NextLine == Poll \/ DeviceLine \/ CallMoveTo \/ CallLineTo
SpecLine == Init /\ [][NextLine]_vars

\* a step in which the caller calls op
Calls(op) == pc = "idle" /\ rx' = rx /\ call'.op = op
\* a step in which send_serial returns to op, which returns in its turn
Returns(op) == pc = "poll" /\ pc' = "idle" /\ call.op = op

\* C11: MoveTo(p) with a pair p sends nothing and leaves cursor = p, also
\* when cursor was p already; LineTo(q) transmits PL from the cursor to q
\* and, when the transmission receives a response, sets the cursor to q;
\* nothing else moves the cursor, so the origin of every PL is the
\* destination of the MoveTo or LineTo before it.
C11_CursorChain ==
    [][/\ (Calls("MoveTo") /\ IsPair(call'.position)) =>
             /\ cursor' = call'.position.v
             /\ tx' = <<>> /\ pc' = "idle" /\ ret' = RetBool(TRUE)
             /\ MoveTo(State', call'.position).cursor = cursor'
       /\ (Calls("LineTo") /\ IsPair(call'.position)) =>
             /\ tx' = <<[cmd |-> <<Cmd("PL", <<cursor[1], cursor[2],
                                               call'.position.v[1],
                                               call'.position.v[2], 15>>)>>,
                         eol |-> CRLF]>>
             /\ cursor' = cursor /\ pc' = "poll"
       /\ (Returns("LineTo") /\ res') =>
             /\ cursor' = call.position.v
             /\ ret' = RetBool(TRUE) /\ tx' = tx
       /\ cursor' # cursor =>
             \/ Calls("MoveTo") /\ IsPair(call'.position)
             \/ Returns("LineTo") /\ res']_vars

\* a LineTo to (8,5) drawn from (5,5) has been answered
C11_Witness ==
    /\ pc = "idle" /\ call.op = "LineTo" /\ ret = RetBool(TRUE)
    /\ tx = <<[cmd |-> <<Cmd("PL", <<5, 5, 8, 5, 15>>)>>, eol |-> CRLF]>>
    /\ cursor = <<8, 5>>

\* C15: LineTo with a position that is no pair returns False, writes
\* nothing and leaves the cursor where it was.
C15_NoPairReturnsFalse ==
    [][(Calls("LineTo") /\ ~IsPair(call'.position)) =>
          /\ pc' = "idle"
          /\ ret' = RetBool(FALSE)
          /\ tx' = <<>>
          /\ cursor' = cursor]_vars

\* LineTo with a position that is no pair has returned, and what MoveTo
\* returns for the same position is False
C15_Witness ==
    /\ pc = "idle" /\ call.op = "LineTo" /\ ~IsPair(call.position)
    /\ tx = <<>>
    /\ MoveTo(State, call.position).ret = RetBool(FALSE)

\* C16: when the PL transmission of LineTo(q) times out, LineTo returns
\* False and the cursor keeps its value; the cursor becomes q only when
\* the transmission received a line; a LineTo(q) called again after the
\* timeout writes the same command, from the same origin.
C16_TimeoutKeepsCursor ==
    [][/\ (Returns("LineTo") /\ ~res') =>
             /\ ret' = RetBool(FALSE)
             /\ cursor' = cursor /\ tx' = tx
       /\ (call.op = "LineTo" /\ IsPair(call.position) /\ cursor' # cursor
             /\ call' = call) =>
             /\ res' /\ Len(polled') > 0 /\ polled'[Len(polled')] > 0
             /\ cursor' = call.position.v
       /\ (Calls("LineTo") /\ call.op = "LineTo" /\ ret = RetBool(FALSE)
             /\ IsPair(call.position) /\ call'.position = call.position) =>
             tx' = tx]_vars

\* a LineTo from (5,5) to (8,5) has timed out
C16_Witness ==
    /\ pc = "idle" /\ call.op = "LineTo" /\ ret = RetBool(FALSE)
    /\ tx = <<[cmd |-> <<Cmd("PL", <<5, 5, 8, 5, 15>>)>>, eol |-> CRLF]>>
    /\ cursor = <<5, 5>> /\ Len(polled) = Retries

----------------------------------------------------------------------------
\* Fonts: ListFont with the default character list and with lists that
\* repeat a character, after any images registered one by one.

FontSizes == {<<8, 12>>, <<16, 16>>}
\* the default list, "ABA", "CC" and the empty string
FontCharLists == {DefaultCharList, <<65, 66, 65>>, <<67, 67>>, <<>>}

ListImageFont == CallListImage(FontSizes)
ListFontFont == CallListFont(FontSizes, FontCharLists)
NextFont == Poll \/ ListImageFont \/ ListFontFont
SpecFont == Init /\ [][NextFont]_vars

\* the place of the last c in the list cl
LastPlace(cl, c) ==
    CHOOSE k \in 1..Len(cl) :
        cl[k] = c /\ \A j \in (k + 1)..Len(cl) : cl[j] # c

\* C12: ListFont returns the new font's index; the font's map has one
\* entry per distinct character of char_list (95 for the default list), a
\* character mapping to the image registered at its last occurrence, the
\* i-th character of a list without repeats to the image i past the first
\* glyph's; img_list grows by len(char_list) entries of char_size and
\* img_offset by len(char_list)*w*h*2.
C12_FontMap ==
    [][Calls("ListFont") =>
          LET cl == call'.char_list
              size == call'.char_size
              font == font_list'[Len(font_list')]
              first == Len(img_list)
          IN  /\ pc' = "idle" /\ ret' = RetInt(Len(font_list))
              /\ Len(font_list') = Len(font_list) + 1
              /\ SubSeq(font_list', 1, Len(font_list)) = font_list
              /\ DOMAIN font = {cl[k] : k \in 1..Len(cl)}
              /\ cl = DefaultCharList =>
                    /\ Cardinality(DOMAIN font) = 95
                    /\ DOMAIN font = 32..126
              /\ \A c \in DOMAIN font : font[c] = first + LastPlace(cl, c) - 1
              /\ Len(img_list') = Len(img_list) + Len(cl)
              /\ SubSeq(img_list', 1, Len(img_list)) = img_list
              /\ \A k \in (Len(img_list) + 1)..Len(img_list') :
                    img_list'[k].size = size
              /\ img_offset' = img_offset + Len(cl) * size[1] * size[2] * 2]_vars

\* the default font has been registered after two images
C12_Witness ==
    /\ pc = "idle" /\ call.op = "ListFont"
    /\ call.char_list = DefaultCharList
    /\ Len(img_list) = 2 + 95
    /\ font_list[1][32] = 2 /\ font_list[1][126] = 96

----------------------------------------------------------------------------
\* Layout: texts drawn from two origins in both orientations, on a
\* display of 48 by 64, with glyphs of 16x16 or 20x10.

\* SunLCD(port, 48, 64)
InitLayout == Is(InitState(48, 64))

LayoutOrigins == {<<5, 3>>, <<16, 32>>}
ListFontLayout == CallListFont({<<16, 16>>, <<20, 10>>}, {<<65, 66>>})
TextFontLayout == CallTextFontOf(LayoutOrigins, {0})
NextLayout ==
    Poll \/ DevicePrompt \/ ListFontLayout \/ TextFontLayout \/ CallOrientation
SpecLayout == InitLayout /\ [][NextLayout]_vars

\* The same display and one font, texts from the corner, for the
\* characters a font lacks.
ListFontSkip == CallListFont({<<16, 16>>}, {<<65, 66>>})
TextFontSkip == CallTextFontOf({<<0, 0>>}, {0, 1, 5})
NextSkip == Poll \/ DevicePrompt \/ ListFontSkip \/ TextFontSkip
SpecSkip == InitLayout /\ [][NextSkip]_vars

\* the characters of text that font holds
Present(font, text) == SelectSeq(text, LAMBDA c : c \in DOMAIN font)

\* a state of the session without the text the caller passed: of the
\* text still to draw, the characters the font holds
Observe(t) ==
    [t EXCEPT !.call = [op |-> t.call.op],
              !.frame = IF t.frame.op = "TextFont"
                        THEN [@ EXCEPT !.rest = Present(t.frame.this_font, @)]
                        ELSE @]

\* C13: every step of TextFont(text) leaves what the same step leaves for
\* the text without the characters the font lacks: the same
\* transmissions (batches, addresses, positions), the same return value,
\* the same session; a text with no character of the font returns True
\* and writes nothing.
C13_AbsentSkipped ==
    [][/\ Calls("TextFont") =>
             LET font == PyIndex(font_list, call'.font_id)
                 clean == Present(font, call'.text)
             IN  /\ Observe(State') =
                      Observe(TextFont(Begin(State, [call' EXCEPT
                                                        !.text = clean]),
                                       call'.font_id, call'.position,
                                       clean, 0))
                 /\ clean = <<>> =>
                       pc' = "idle" /\ ret' = RetBool(TRUE) /\ tx' = <<>>
       /\ (pc = "poll" /\ frame.op = "TextFont" /\ rx' = <<>>) =>
             Observe(State') =
                 Observe(send_serial_poll(
                     [State EXCEPT !.frame.rest =
                                       Present(frame.this_font, @)]))]_vars

\* a text of 20 characters, 4 of them not in the font, has been drawn in
\* one transmission of 16 glyphs
C13_Witness ==
    /\ DrawsText /\ pc = "idle" /\ ret = RetBool(TRUE)
    /\ Len(call.text) = 20 /\ Len(Glyphs) = 16
    /\ Len(tx) = 1 /\ Len(tx[1].cmd) = 16

\* the logical width and height of the session
LogicalW ==
    IF current_orientation = HORIZONTAL THEN standard_height
                                        ELSE standard_width
LogicalH ==
    IF current_orientation = HORIZONTAL THEN standard_width
                                        ELSE standard_height

\* C17: when the glyphs are narrower and lower than the logical screen
\* and the origin has 0 <= x < W - w and 0 <= y < H - h, every FSIMG of
\* the call has 0 <= x < W - w and 0 <= y < H - h, so the glyph is on the
\* screen; the first glyph is at the origin; after a glyph at (x, y) the
\* next is at x + w on the same line unless x + w >= W - w, and then at
\* x = 0 and y + h, or y = 0 when y + h >= H - h.
C17_GlyphsOnScreen ==
    DrawsText =>
        \A m \in 1..Len(Sent) :
            LET size == img_list[CallFont[Glyphs[m]] + 1].size
                w == size[1]
                h == size[2]
                x == Sent[m].args[2]
                y == Sent[m].args[3]
            IN  (/\ w < LogicalW /\ h < LogicalH
                 /\ 0 <= call.position[1] /\ call.position[1] < LogicalW - w
                 /\ 0 <= call.position[2] /\ call.position[2] < LogicalH - h)
                =>
                /\ 0 <= x /\ x < LogicalW - w /\ x + w <= LogicalW
                /\ 0 <= y /\ y < LogicalH - h /\ y + h <= LogicalH
                /\ Sent[m].args[4] = w /\ Sent[m].args[5] = h
                /\ m = 1 => x = call.position[1] /\ y = call.position[2]
                /\ m < Len(Sent) =>
                      LET nx == Sent[m + 1].args[2]
                          ny == Sent[m + 1].args[3]
                      IN  IF x + w >= LogicalW - w
                          THEN /\ nx = 0
                               /\ ny = IF y + h >= LogicalH - h THEN 0
                                                                ELSE y + h
                          ELSE nx = x + w /\ ny = y

\* in the horizontal orientation a text has wrapped from the bottom of
\* the screen to its top
C17_Witness ==
    /\ DrawsText /\ current_orientation = HORIZONTAL
    /\ call.position = <<5, 3>>
    /\ \E m \in 2..Len(Sent) :
          /\ Sent[m].args[3] = 0 /\ Sent[m - 1].args[3] > 0
          /\ Sent[m - 1].args[2] > 16

----------------------------------------------------------------------------
\* The acknowledgement flag and the status text, under SpecSend.

\* the last line of the bytes w, or "" when w holds no LF
LastLine(w) ==
    IF LFs(w) = {} THEN <<>>
    ELSE LET p == CHOOSE k \in LFs(w) : \A j \in LFs(w) : j <= k
         IN  Trimmed(SubSeq(w, SegmentStart(w, p), p - 1))

OkScoped ==
    /\ pc = "poll" => ~ok /\ response_body = <<>>
    /\ (call.op = "send_serial" /\ pc = "idle") =>
          /\ ok <=> \E k \in 1..Len(lines) : lines[k] = OKLine
          /\ ret = RetBool(FALSE) =>
                ~ok /\ response_body = <<>> /\ lines = <<>>
          /\ ret = RetBool(TRUE) =>
                lines # <<>> /\ response_body = lines[Len(lines)]

\* C14: send_serial sets ok = False and response_body = "" before it
\* writes, whatever they were; when it has returned, ok is True exactly
\* when a line "OK" was completed during the call, and after a timeout
\* ok is False and response_body is "".
C14_OkScoped ==
    /\ []OkScoped
    /\ [][Calls("send_serial") =>
             /\ ~ok' /\ response_body' = <<>>
             /\ Len(tx') = 1]_vars

\* a send_serial has timed out with "OK" read and no LF after it
C14_Witness ==
    /\ pc = "idle" /\ call.op = "send_serial" /\ ret = RetBool(FALSE)
    /\ ~ok /\ response_body = <<>>
    /\ _buf = OKLine

----------------------------------------------------------------------------
\* Late answers: a device that sends only while no command is waiting for
\* its answer, so that all a send_serial reads was sent before it wrote.

DeviceLate == pc = "idle" /\ DeviceByte
NextStale == Poll \/ CallSendSerial \/ DeviceLate
SpecStale == Init /\ [][NextStale]_vars

StaleConsumed ==
    (call.op = "send_serial" /\ pc = "idle") =>
        /\ ret = RetBool(LFs(Fed) # {})
        /\ ret = RetBool(TRUE) =>
              /\ Len(polled) = 1
              /\ response_body = LastLine(Fed)
              /\ ok <=> \E k \in 1..Len(lines) : lines[k] = OKLine
              /\ Len(lines) = Cardinality(LFs(Fed))

\* C18: send_serial leaves the waiting input and _buf as they are when
\* it writes; when all that it reads was sent before it wrote, it returns
\* True exactly when that input completes a line, at its first poll, with
\* response_body the last such line and ok set when one of them is "OK".
C18_StaleConsumed ==
    /\ []StaleConsumed
    /\ [][(pc = "idle" /\ pc' = "poll" /\ call'.op = "send_serial") =>
             rx' = rx /\ _buf' = _buf /\ buf0' = _buf]_vars

\* "O" was read by a send_serial that timed out, "K\n" came after it,
\* and the next send_serial has returned True, acknowledged
C18_Witness ==
    /\ pc = "idle" /\ call.op = "send_serial" /\ ret = RetBool(TRUE)
    /\ buf0 = <<79>> /\ stream = <<75, 10>>
    /\ ok /\ response_body = OKLine

====
